---- MODULE Spec2Model ----
(***************************************************************************)
(* Model of the histogram-production pipeline of PlotTools:                *)
(*   prepareHistosForCards.py  (process_trees, assign_event_weight,        *)
(*                              prepare_output, __main__ tables)           *)
(*   hdumper.py                (process_trees, assign_event_weight,        *)
(*                              prepare_output)                            *)
(* Python strings are TLA+ strings; `x in s` is Contains(x, s).            *)
(***************************************************************************)
EXTENDS Integers, Sequences, FiniteSets, TLC

VARIABLES
    prog,             \* which script runs: "cards" (prepareHistosForCards) or "hdumper"
    year,             \* args.year
    eventClassification, \* hdumper's args.eventClassification
    input_files,      \* list of input paths handed to process_trees
    pc,               \* position inside process_trees
    fi,               \* index of infile in input_files
    si,               \* index of selection_name in selections
    yi,               \* index of syst in systematics.keys()
    ci,               \* index in zip(adhoc_selection.items(), output_files) / hist_configs
    open_inputs,      \* input files opened and not closed
    open_outputs,     \* output files opened and not closed
    event_selection,  \* the predicate given to df.Filter
    weight,           \* local variable weight
    columns,          \* weight columns defined on df_selected: name -> expression
    hist_name,        \* local variable hist_name
    written,          \* every hist.Write(), in order
    electron,         \* args.electron
    muon,             \* args.muon
    add_selection,    \* hdumper's args.add_selection ("" when not given)
    dpc,              \* prepareDatacards: position in the script
    dyear,            \* prepareDatacards: args.year, a string
    cb_procs,         \* prepareDatacards: processes held by cb, <<bin, process, signal>>
    cb_systs,         \* prepareDatacards: systematics held by cb, <<name, type>>
    inputfiles,       \* prepareDatacards: the inputfiles dictionary, <<bin, path>>
    shape_lookups,    \* prepareDatacards: histogram lookups of ExtractShapes
    raw_scores,       \* one event's raw scores, column name -> value
    defined,          \* columns added by df.Define, <<name, numerator, denominator>>
    scan_pc,          \* threshold scan: position
    cut,              \* threshold scan: the float `cut`
    points,           \* threshold scan: thresholds of the points set on roc_curve
    sig_hist,         \* threshold scan: bin contents of the signal histogram
    bkg_hist,         \* threshold scan: bin contents of bkg_hist / sum_of_backgrounds
    roc,              \* threshold scan: the points of roc_curve, <<x, y>>
    stack,            \* histogram reading: indices of the files added to the stack
    fix_pc,           \* fixNegativeBins: position
    fix_call,         \* fixNegativeBins: 1 in the first call on the file, 2 in the second
    fix_name,         \* fixNegativeBins: name of the key e
    fix_isTH1,        \* fixNegativeBins: h inherits from TH1
    fix_in,           \* fixNegativeBins: the histogram as first read, <<content, error>> per bin
    fix_h,            \* fixNegativeBins: the histogram h being fixed
    fix_i,            \* fixNegativeBins: the loop variable i
    fix_out,          \* fixNegativeBins: histograms written to fout by each call
    input_dirs,       \* __main__: args.input_dirs
    glob_i,           \* __main__: index of input_dir in args.input_dirs
    score_tt_Wcb,     \* one event's score_tt_Wcb
    filled,           \* the categories whose adhoc_selection the event passes
    disk,             \* hdumper __main__: files present in args.output_dir
    merge_pc,         \* hdumper __main__: position in the merge_files calls
    merge_i,          \* hdumper __main__: number of the merge_files call
    merge_log         \* merge_files: <<call, exit status of hadd, files removed>>

\* the command-line options that shape the selections dictionary
optionVars == <<electron, muon, add_selection>>

datacardVars == <<dpc, dyear, cb_procs, cb_systs, inputfiles, shape_lookups>>
scoreVars == <<raw_scores, defined>>
scanVars == <<scan_pc, cut, points, sig_hist, bkg_hist, roc, stack>>

\* state of the other scripts, untouched by process_trees
fixVars == <<fix_pc, fix_call, fix_name, fix_isTH1, fix_in, fix_h, fix_i, fix_out>>
globVars == <<input_dirs, glob_i>>
categoryVars == <<score_tt_Wcb, filled>>
mergeVars == <<disk, merge_pc, merge_i, merge_log>>
moreVars == <<globVars, categoryVars, mergeVars>>
otherVars == <<datacardVars, scoreVars, scanVars, fixVars, moreVars>>

vars == <<prog, year, eventClassification, input_files, pc, fi, si, yi, ci,
          open_inputs, open_outputs, event_selection, weight, columns,
          hist_name, written, optionVars, otherVars>>

-----------------------------------------------------------------------------
(* Bounds *)

MaxFiles == 2

\* raw scores are multiples 0..MaxScore of one unit
MaxScore == 2

\* histograms of the threshold scan: NBins equal bins on [0, 1], contents
\* 0..MaxContent
NBins == 2
MaxContent == 1

-----------------------------------------------------------------------------
(* Python string primitives *)

\* Python: sub in s
Contains(sub, s) ==
    \E i \in 1..(Len(s) - Len(sub) + 1) : SubSeq(s, i, i + Len(sub) - 1) = sub

\* Python: any(x in s for x in names)
AnyIn(names, s) == \E k \in 1..Len(names) : Contains(names[k], s)

\* Python: s.split('/')[-1]
LastComponent(s) ==
    LET slashes == {i \in 1..Len(s) : SubSeq(s, i, i) = "/"}
        last    == IF slashes = {} THEN 0
                   ELSE CHOOSE i \in slashes : \A j \in slashes : j <= i
    IN  SubSeq(s, last + 1, Len(s))

\* Python: s.replace(old, new)  (every non-overlapping occurrence, left to right)
RECURSIVE Replace(_, _, _)
Replace(s, old, new) ==
    IF Len(s) < Len(old) THEN s
    ELSE IF SubSeq(s, 1, Len(old)) = old
         THEN new \o Replace(SubSeq(s, Len(old) + 1, Len(s)), old, new)
         ELSE SubSeq(s, 1, 1) \o Replace(SubSeq(s, 2, Len(s)), old, new)

-----------------------------------------------------------------------------
(* Tables of the two scripts *)

tt_file_names == <<"ttbb-4f", "ttbb-dps", "ttbar-powheg">>
tt4f_strings  == <<"ttbb", "ttbj">>
tt_strings    == <<"ttcc", "ttcj", "ttLF">>

\* keys of the selections dictionary, in insertion order
selection_names == <<"base", "ttbb", "ttbj", "ttcc", "ttcj", "ttLF">>

\* the selections dictionary as written in __main__
selections_literal ==
    [n \in {selection_names[k] : k \in 1..Len(selection_names)} |->
        CASE n = "base" -> "n_ak4>=4 && (n_btagM+n_ctagM)>=3 && n_btagM>=1"
          [] n = "ttbb" -> " && genEventClassifier==9 && wcb==0"
          [] n = "ttbj" -> " && (genEventClassifier==7 || genEventClassifier==8) && wcb==0"
          [] n = "ttcc" -> " && genEventClassifier==6 && wcb==0"
          [] n = "ttcj" -> " && (genEventClassifier==4 || genEventClassifier==5) && wcb==0"
          [] n = "ttLF" -> " && tt_category==0 && higgs_decay==0 && wcb==0"]

\* variant of selections: the additional selection appended without parentheses
selections_NoParens ==
    LET s0 == selections_literal
        s1 == IF electron THEN [s0 EXCEPT !["base"] = @ \o " && passTrigEl"] ELSE s0
        s2 == IF muon THEN [s1 EXCEPT !["base"] = @ \o " && passTrigMu"] ELSE s1
    IN  IF add_selection # ""
        THEN [n \in DOMAIN s2 |-> s2[n] \o " && " \o add_selection]
        ELSE s2

\* the selections dictionary handed to process_trees: the trigger terms are
\* appended to "base", then hdumper appends the additional selection to every key
selections ==
    LET s0 == selections_literal
        s1 == IF electron THEN [s0 EXCEPT !["base"] = @ \o " && passTrigEl"] ELSE s0
        s2 == IF muon THEN [s1 EXCEPT !["base"] = @ \o " && passTrigMu"] ELSE s1
    IN  IF add_selection # ""
        THEN [n \in DOMAIN s2 |-> s2[n] \o " && (" \o add_selection \o ")"]
        ELSE s2

\* systematics dictionary of prepareHistosForCards: <<key, ratio>> in insertion order
systematics_JERNoYear(y) ==
    << <<"None", "">>,
       <<"CMS_pileup_" \o ToString(y) \o "Up",   "puWeightUp/puWeight">>,
       <<"CMS_pileup_" \o ToString(y) \o "Down", "puWeightDown/puWeight">>,
       <<"CMS_JERUp",   "flavTagWeight_JER_UP/flavTagWeight">>,
       <<"CMS_JERDown", "flavTagWeight_JER_DOWN/flavTagWeight">>,
       <<"CMS_JES" \o ToString(y) \o "Up",   "flavTagWeight_JES_UP/flavTagWeight">>,
       <<"CMS_JES" \o ToString(y) \o "Down", "flavTagWeight_JES_DOWN/flavTagWeight">> >>

\* the systematics dictionary of prepareHistosForCards, <<key, ratio>>
systematics(y) ==
    << <<"None", "">>,
       <<"CMS_pileup_" \o ToString(y) \o "Up",   "puWeightUp/puWeight">>,
       <<"CMS_pileup_" \o ToString(y) \o "Down", "puWeightDown/puWeight">>,
       <<"CMS_JER" \o ToString(y) \o "Up",   "flavTagWeight_JER_UP/flavTagWeight">>,
       <<"CMS_JER" \o ToString(y) \o "Down", "flavTagWeight_JER_DOWN/flavTagWeight">>,
       <<"CMS_JES" \o ToString(y) \o "Up",   "flavTagWeight_JES_UP/flavTagWeight">>,
       <<"CMS_JES" \o ToString(y) \o "Down", "flavTagWeight_JES_DOWN/flavTagWeight">> >>

\* keys of adhoc_selection, in insertion order
adhoc_scores ==
    <<"score_tt_Wcb", "fscore_ttbb", "fscore_ttbj", "fscore_ttcc", "fscore_ttcj", "fscore_ttLF">>

categories == <<"catWcb", "catBB", "catBJ", "catCC", "catCJ", "catLF">>
prepended_ == "Vcb_"
appended_  == <<"_CR", "_SR">>

\* args.output_dir
output_dir == "out/"

\* prepareDatacards.datacard_dict: <<bin, distribution>> in insertion order
datacard_dict ==
    << <<"Vcb_catWcb_SR", "score_tt_Wcb">>,
       <<"Vcb_catBB_CR",  "fscore_ttbb">>,
       <<"Vcb_catBJ_CR",  "fscore_ttbj">>,
       <<"Vcb_catCC_CR",  "fscore_ttcc">>,
       <<"Vcb_catCJ_CR",  "fscore_ttcj">>,
       <<"Vcb_catLF_CR",  "fscore_ttLF">> >>

\* variant of prepare_output: the two suffixes of `append` swapped
prepare_output_Swapped(dir, y, cats, prepend, append) ==
    LET name_list == [k \in 1..Len(cats) |-> prepend \o cats[k]]
        with_app  == [k \in 1..Len(cats) |->
                        IF Contains("Wcb", name_list[k])
                        THEN name_list[k] \o append[1]
                        ELSE name_list[k] \o append[2]]
    IN  [k \in 1..Len(cats) |-> dir \o ToString(y) \o "/" \o with_app[k] \o ".root"]

\* prepareHistosForCards.prepare_output
prepare_output(dir, y, cats, prepend, append) ==
    LET name_list == [k \in 1..Len(cats) |-> prepend \o cats[k]]
        with_app  == [k \in 1..Len(cats) |->
                        IF Contains("Wcb", name_list[k])
                        THEN name_list[k] \o append[2]
                        ELSE name_list[k] \o append[1]]
    IN  [k \in 1..Len(cats) |-> dir \o ToString(y) \o "/" \o with_app[k] \o ".root"]

output_files == prepare_output(output_dir, year, categories, prepended_, appended_)

\* hdumper.prepare_output
hdumper_prepare_output(dir, files) ==
    [k \in 1..Len(files) |->
        dir \o "h_" \o Replace(LastComponent(files[k]), "_tree.root", ".root")]

\* rows of the csv file given to hdumper (read_csv): the branch names
hist_configs ==
    IF eventClassification THEN <<"score_tt_Wcb", "fscore_ttbb">>
    ELSE <<"n_ak4", "ak4_1_pt">>

-----------------------------------------------------------------------------
(* assign_event_weight *)

nominal2018 ==
    "lumiwgt*genWeight*xsecWeight*l1PreFiringWeight*puWeight*muEffWeight*elEffWeight*flavTagWeight*(((abs(lep1_pdgId)==11 && passTrigEl && ((year!=2018) || (year==2018 && !(lep1_phi>-1.57 && lep1_phi<-0.87 && lep1_eta<-1.3)))) || (abs(lep1_pdgId)==13 && passTrigMu)) && passmetfilters)"

\* variants of assign_event_weight: the 2018 expression for every year;
\* `elif` for the "4f" test; the ratio appended without "*"
assign_event_weight_AnyYear(y, infile, syst) ==
    LET w0 == nominal2018
        w1 == IF Contains("ttbar", infile) THEN w0 \o "*topptWeight" ELSE w0
        w2 == IF Contains("4f", infile) THEN w1 \o "*topptWeight" ELSE w1
    IN  IF syst # "" THEN w2 \o "*" \o syst ELSE w2

assign_event_weight_Elif(y, infile, syst) ==
    LET w0 == IF y = 2018 THEN nominal2018 ELSE "1"
        w1 == IF Contains("ttbar", infile) THEN w0 \o "*topptWeight" ELSE w0
        w2 == IF ~Contains("ttbar", infile) /\ Contains("4f", infile)
              THEN w1 \o "*topptWeight" ELSE w1
    IN  IF syst # "" THEN w2 \o "*" \o syst ELSE w2

assign_event_weight_NoStar(y, infile, syst) ==
    LET w0 == IF y = 2018 THEN nominal2018 ELSE "1"
        w1 == IF Contains("ttbar", infile) THEN w0 \o "*topptWeight" ELSE w0
        w2 == IF Contains("4f", infile) THEN w1 \o "*topptWeight" ELSE w1
    IN  IF syst # "" THEN w2 \o syst ELSE w2

\* prepareHistosForCards.assign_event_weight(year, infile, syst="")
assign_event_weight(y, infile, syst) ==
    LET w0 == IF y = 2018 THEN nominal2018 ELSE "1"
        w1 == IF Contains("ttbar", infile) THEN w0 \o "*topptWeight" ELSE w0
        w2 == IF Contains("4f", infile) THEN w1 \o "*topptWeight" ELSE w1
    IN  IF syst # "" THEN w2 \o "*" \o syst ELSE w2

\* hdumper.assign_event_weight(year, infile)
hdumper_assign_event_weight(y, infile) ==
    LET w0 == IF y = 2018 THEN nominal2018 ELSE "1"
        w1 == IF Contains("ttbar", infile) THEN w0 \o "*topptWeight" ELSE w0
        w2 == IF Contains("4f", infile) THEN w1 \o "*topptWeight" ELSE w1
    IN  w2

-----------------------------------------------------------------------------
(* Region routing, predicate and naming rules of process_trees *)

\* the four `continue` rules at the top of the selection loop
SkipRule1(sel, infile) == ~Contains("base", sel) /\ ~AnyIn(tt_file_names, infile)
SkipRule2_NoBaseSkip(sel, infile) == FALSE
SkipRule2(sel, infile) == AnyIn(tt_file_names, infile) /\ Contains("base", sel)
SkipRule3_4fToken(sel, infile) == AnyIn(tt4f_strings, sel) /\ ~Contains("4f", infile)
SkipRule3(sel, infile) == AnyIn(tt4f_strings, sel) /\ ~Contains("bb", infile)
SkipRule4(sel, infile) == AnyIn(tt_strings, sel) /\ ~Contains("powheg", infile)

SkipsSelection(sel, infile) ==
    \/ SkipRule1(sel, infile)
    \/ SkipRule2(sel, infile)
    \/ SkipRule3(sel, infile)
    \/ SkipRule4(sel, infile)

\* event_selection given to df.Filter
EventSelection(sel, infile) ==
    LET s == IF ~Contains("base", sel) THEN selections["base"] \o selections[sel]
             ELSE selections[sel]
    IN  IF Contains("singlee", infile) THEN s \o " && passTrigMu==0" ELSE s

\* expression of the weight column: MC weight, or "1" for collision data
WeightColumnExpr(infile, w) == IF ~Contains("data", infile) THEN w ELSE "1"

\* variant of HistName: the systematic suffix appended for every key
HistName_AlwaysSuffix(infile, sel, syst) ==
    LET n0 == Replace(LastComponent(infile), "_tree.root", "")
        n1 == IF AnyIn(tt_file_names, infile) THEN sel ELSE n0
        n2 == IF Contains("Data", infile) THEN "data_obs" ELSE n1
    IN  n2 \o "_" \o syst

\* hist_name of prepareHistosForCards.process_trees
HistName(infile, sel, syst) ==
    LET n0 == Replace(LastComponent(infile), "_tree.root", "")
        n1 == IF AnyIn(tt_file_names, infile) THEN sel ELSE n0
        n2 == IF Contains("Data", infile) THEN "data_obs" ELSE n1
    IN  IF syst # "None" THEN n2 \o "_" \o syst ELSE n2

\* `if "Data" in infile: break` after the category loop
BreaksAfterNominal(infile) == Contains("Data", infile)

-----------------------------------------------------------------------------
(* Inputs *)

\* paths that glob can return for --input_dirs
SamplePaths ==
    << "in/ttW_tree.root",
       "in/Data_tree.root",
       "in/data_tree.root",
       "in/singlee_tree.root",
       "ttbar-4f_tree.root",
       "ttbb-4f_tree.root",
       "ttbb-dps_tree.root",
       "ttbar-powheg_tree.root",
       "powheg/ttbb-4f_tree.root" >>

Years == {2017, 2018}

\* the lists of at most n distinct paths.  process_trees handles the files
\* one after the other and no step of a file reads what an earlier file left,
\* so each set of paths is listed in one order (that of SamplePaths).
RECURSIVE FileLists(_)
FileLists(n) ==
    IF n = 0 THEN {<< >>}
    ELSE LET shorter == FileLists(n - 1)
             longest == {l \in shorter : Len(l) = n - 1}
             follows(l, k) ==
                 \A i \in 1..Len(l) : \E j \in 1..(k - 1) : l[i] = SamplePaths[j]
         IN  shorter \cup
             { Append(p[1], SamplePaths[p[2]]) :
                 p \in {q \in longest \X (1..Len(SamplePaths)) : follows(q[1], q[2])} }

infile == input_files[fi]
selection_name == selection_names[si]
syst == systematics(year)[yi][1]

-----------------------------------------------------------------------------
(* State machine *)

\* entry of process_trees: nothing opened, nothing written
InitProcessTrees ==
    /\ prog \in {"cards", "hdumper"}
    /\ year \in Years
    /\ eventClassification \in (IF prog = "hdumper" THEN BOOLEAN ELSE {FALSE})
    /\ pc = "open"
    /\ fi = 1
    /\ si = 1
    /\ yi = 1
    /\ ci = 1
    /\ open_inputs = {}
    /\ open_outputs = {}
    /\ event_selection = ""
    /\ weight = ""
    /\ columns = << >>
    /\ hist_name = ""
    /\ written = << >>

\* prepareDatacards not started
IdleDatacard ==
    /\ dpc = "idle"
    /\ dyear = ""
    /\ cb_procs = {}
    /\ cb_systs = {}
    /\ inputfiles = << >>
    /\ shape_lookups = {}

\* no event under evaluation
IdleScores ==
    /\ raw_scores = << >>
    /\ defined = << >>

\* no threshold scan started
IdleScan ==
    /\ scan_pc = "idle"
    /\ cut = << >>
    /\ points = << >>
    /\ sig_hist = << >>
    /\ bkg_hist = << >>
    /\ roc = << >>
    /\ stack = << >>

\* fixNegativeBins not called
IdleFix ==
    /\ fix_pc = "idle"
    /\ fix_call = 0
    /\ fix_name = ""
    /\ fix_isTH1 = FALSE
    /\ fix_in = << >>
    /\ fix_h = << >>
    /\ fix_i = 0
    /\ fix_out = << >>

\* the glob loop of __main__ is over
IdleGlob ==
    /\ input_dirs = << >>
    /\ glob_i = 0

\* no event under classification
IdleCategories ==
    /\ score_tt_Wcb = 0
    /\ filled = {}

\* the merge_files calls of hdumper not reached
IdleMerge ==
    /\ disk = {}
    /\ merge_pc = "idle"
    /\ merge_i = 0
    /\ merge_log = << >>

IdleMore == IdleGlob /\ IdleCategories /\ IdleMerge

\* a run without --electron, --muon, --add_selection on up to MaxFiles files
Init ==
    /\ IdleMore /\ IdleDatacard /\ IdleScores /\ IdleScan /\ IdleFix
    /\ InitProcessTrees
    /\ input_files \in FileLists(MaxFiles)
    /\ electron = FALSE
    /\ muon = FALSE
    /\ add_selection = ""

\* values of --add_selection
AddSelections == {"", "n_ak4>=6 || n_btagM>=2"}

\* a run on one file with any combination of --electron, --muon and
\* (hdumper only) --add_selection
InitOptions ==
    /\ IdleMore /\ IdleDatacard /\ IdleScores /\ IdleScan /\ IdleFix
    /\ InitProcessTrees
    /\ input_files \in FileLists(1)
    /\ electron \in BOOLEAN
    /\ muon \in BOOLEAN
    /\ add_selection \in (IF prog = "hdumper" THEN AddSelections ELSE {""})

\* end of `for infile in input_files`
Finish ==
    /\ pc = "open"
    /\ fi > Len(input_files)
    /\ pc' = "done"
    /\ UNCHANGED <<optionVars, otherVars, prog, year, eventClassification, input_files, fi, si, yi, ci,
                   open_inputs, open_outputs, event_selection, weight, columns,
                   hist_name, written>>

\* TFile.Open succeeds and the tree is found; the RDataFrame is built
OpenInputFile ==
    /\ prog = "cards"
    /\ pc = "open"
    /\ fi <= Len(input_files)
    /\ open_inputs' = open_inputs \cup {infile}
    /\ si' = 1
    /\ pc' = "sel"
    /\ UNCHANGED <<optionVars, otherVars, prog, year, eventClassification, input_files, fi, yi, ci,
                   open_outputs, event_selection, weight, columns, hist_name,
                   written>>

\* TFile.Open returns null or a zombie: raise FileNotFoundError
RaiseFileNotFound ==
    /\ pc = "open"
    /\ fi <= Len(input_files)
    /\ pc' = "raised"
    /\ UNCHANGED <<optionVars, otherVars, prog, year, eventClassification, input_files, fi, si, yi, ci,
                   open_inputs, open_outputs, event_selection, weight, columns,
                   hist_name, written>>

\* the file opens but the tree is missing or is not a TTree: raise ValueError
RaiseTreeNotFound ==
    /\ pc = "open"
    /\ fi <= Len(input_files)
    /\ open_inputs' = open_inputs \cup {infile}
    /\ pc' = "raised"
    /\ UNCHANGED <<optionVars, otherVars, prog, year, eventClassification, input_files, fi, si, yi, ci,
                   open_outputs, event_selection, weight, columns, hist_name,
                   written>>

\* one of the four `continue` rules fires
SkipSelection ==
    /\ pc = "sel"
    /\ si <= Len(selection_names)
    /\ SkipsSelection(selection_name, infile)
    /\ si' = si + 1
    /\ UNCHANGED <<optionVars, otherVars, prog, year, eventClassification, input_files, pc, fi, yi, ci,
                   open_inputs, open_outputs, event_selection, weight, columns,
                   hist_name, written>>

\* prepareHistosForCards: df_selected = df.Filter(event_selection)
ApplySelection ==
    /\ prog = "cards"
    /\ pc = "sel"
    /\ si <= Len(selection_names)
    /\ ~SkipsSelection(selection_name, infile)
    /\ event_selection' = EventSelection(selection_name, infile)
    /\ columns' = << >>
    /\ yi' = 1
    /\ pc' = "syst"
    /\ UNCHANGED <<optionVars, otherVars, prog, year, eventClassification, input_files, fi, si, ci,
                   open_inputs, open_outputs, weight, hist_name, written>>

\* end of the selection loop: input_file.Close()
CloseInputFile ==
    /\ pc = "sel"
    /\ si > Len(selection_names)
    /\ open_inputs' = open_inputs \ {infile}
    /\ fi' = fi + 1
    /\ pc' = "open"
    /\ UNCHANGED <<optionVars, otherVars, prog, year, eventClassification, input_files, si, yi, ci,
                   open_outputs, event_selection, weight, columns, hist_name,
                   written>>

\* prepareHistosForCards: weight for this systematic and its weight column
AssignWeight ==
    /\ prog = "cards"
    /\ pc = "syst"
    /\ yi <= Len(systematics(year))
    /\ LET w == IF syst = "None"
                THEN assign_event_weight(year, infile, "")
                ELSE assign_event_weight(year, infile, systematics(year)[yi][2])
           weight_column == "weight_column" \o syst
       IN  /\ weight' = w
           /\ columns' = columns \o << <<weight_column, WeightColumnExpr(infile, w)>> >>
    /\ ci' = 1
    /\ pc' = "cat"
    /\ UNCHANGED <<optionVars, otherVars, prog, year, eventClassification, input_files, fi, si, yi,
                   open_inputs, open_outputs, event_selection, hist_name, written>>

\* the systematics loop is exhausted: next selection
NextSelection ==
    /\ prog = "cards"
    /\ pc = "syst"
    /\ yi > Len(systematics(year))
    /\ si' = si + 1
    /\ pc' = "sel"
    /\ UNCHANGED <<optionVars, otherVars, prog, year, eventClassification, input_files, fi, yi, ci,
                   open_inputs, open_outputs, event_selection, weight, columns,
                   hist_name, written>>

\* fOut = ROOT.TFile(outfile, "UPDATE") and the computation of hist_name
OpenOutput ==
    /\ prog = "cards"
    /\ pc = "cat"
    /\ ci <= Len(adhoc_scores) /\ ci <= Len(output_files)
    /\ open_outputs' = open_outputs \cup {output_files[ci]}
    /\ hist_name' = HistName(infile, selection_name, syst)
    /\ pc' = "write"
    /\ UNCHANGED <<optionVars, otherVars, prog, year, eventClassification, input_files, fi, si, yi, ci,
                   open_inputs, event_selection, weight, columns, written>>

\* variant of WriteHistogram: fOut.Close() forgotten
WriteHistogram_NoClose ==
    /\ prog = "cards"
    /\ pc = "write"
    /\ written' = Append(written,
                    [file      |-> output_files[ci],
                     name      |-> hist_name,
                     infile    |-> infile,
                     selection |-> selection_name,
                     syst      |-> syst,
                     score     |-> adhoc_scores[ci],
                     weight    |-> columns[Len(columns)][2]])
    /\ ci' = ci + 1
    /\ pc' = "cat"
    /\ UNCHANGED <<optionVars, otherVars, prog, year, eventClassification,
                   input_files, fi, si, yi, open_inputs, open_outputs,
                   event_selection, weight, columns, hist_name>>

\* Histo1D(...), hist.Write(), fOut.Close()
WriteHistogram ==
    /\ prog = "cards"
    /\ pc = "write"
    /\ written' = Append(written,
                    [file      |-> output_files[ci],
                     name      |-> hist_name,
                     infile    |-> infile,
                     selection |-> selection_name,
                     syst      |-> syst,
                     score     |-> adhoc_scores[ci],
                     weight    |-> columns[Len(columns)][2]])
    /\ open_outputs' = open_outputs \ {output_files[ci]}
    /\ ci' = ci + 1
    /\ pc' = "cat"
    /\ UNCHANGED <<optionVars, otherVars, prog, year, eventClassification, input_files, fi, si, yi,
                   open_inputs, event_selection, weight, columns, hist_name>>

\* end of the category loop, not the Data sample: next systematic
NextSystematic ==
    /\ prog = "cards"
    /\ pc = "cat"
    /\ ~(ci <= Len(adhoc_scores) /\ ci <= Len(output_files))
    /\ ~BreaksAfterNominal(infile)
    /\ yi' = yi + 1
    /\ pc' = "syst"
    /\ UNCHANGED <<optionVars, otherVars, prog, year, eventClassification, input_files, fi, si, ci,
                   open_inputs, open_outputs, event_selection, weight, columns,
                   hist_name, written>>

\* end of the category loop for the Data sample: break out of the systematics loop
BreakForData ==
    /\ prog = "cards"
    /\ pc = "cat"
    /\ ~(ci <= Len(adhoc_scores) /\ ci <= Len(output_files))
    /\ BreaksAfterNominal(infile)
    /\ si' = si + 1
    /\ pc' = "sel"
    /\ UNCHANGED <<optionVars, otherVars, prog, year, eventClassification, input_files, fi, yi, ci,
                   open_inputs, open_outputs, event_selection, weight, columns,
                   hist_name, written>>

\* hdumper: output file of the current (infile, selection_name)
hdOutputFile ==
    LET outfile == hdumper_prepare_output(output_dir, input_files)[fi]
        tt_outfile_name == Replace(outfile, ".root", "_" \o selection_name \o ".root")
    IN  IF ~Contains("base", selection_name) THEN tt_outfile_name ELSE outfile

\* hdumper: the input file opens, the tree is found, and the weight is assigned
hdOpenInputFile ==
    /\ prog = "hdumper"
    /\ pc = "open"
    /\ fi <= Len(input_files)
    /\ open_inputs' = open_inputs \cup {infile}
    /\ weight' = hdumper_assign_event_weight(year, infile)
    /\ si' = 1
    /\ pc' = "sel"
    /\ UNCHANGED <<optionVars, otherVars, prog, year, eventClassification, input_files, fi, yi, ci,
                   open_outputs, event_selection, columns, hist_name, written>>

\* hdumper: ROOT.TFile(output_file, "RECREATE"), df.Filter, the weight column
hdOpenOutput ==
    /\ prog = "hdumper"
    /\ pc = "sel"
    /\ si <= Len(selection_names)
    /\ ~SkipsSelection(selection_name, infile)
    /\ open_outputs' = open_outputs \cup {hdOutputFile}
    /\ written' = SelectSeq(written, LAMBDA r : r.file # hdOutputFile)
    /\ event_selection' = EventSelection(selection_name, infile)
    /\ columns' = << <<"weight_column", WeightColumnExpr(infile, weight)>> >>
    /\ ci' = 1
    /\ pc' = "hist"
    /\ UNCHANGED <<optionVars, otherVars, prog, year, eventClassification, input_files, fi, si, yi,
                   open_inputs, weight, hist_name>>

\* hdumper: Histo1D and hist.Write() for one row of hist_configs
hdWriteHistogram ==
    /\ prog = "hdumper"
    /\ pc = "hist"
    /\ ci <= Len(hist_configs)
    /\ written' = Append(written,
                    [file      |-> hdOutputFile,
                     name      |-> "h_" \o hist_configs[ci],
                     infile    |-> infile,
                     selection |-> selection_name,
                     syst      |-> "None",
                     score     |-> hist_configs[ci],
                     weight    |-> columns[Len(columns)][2]])
    /\ ci' = ci + 1
    /\ UNCHANGED <<optionVars, otherVars, prog, year, eventClassification, input_files, pc, fi, si, yi,
                   open_inputs, open_outputs, event_selection, weight, columns,
                   hist_name>>

\* hdumper: output_root.Close() after the last histogram
hdCloseOutput ==
    /\ prog = "hdumper"
    /\ pc = "hist"
    /\ ci > Len(hist_configs)
    /\ open_outputs' = open_outputs \ {hdOutputFile}
    /\ si' = si + 1
    /\ pc' = "sel"
    /\ UNCHANGED <<optionVars, otherVars, prog, year, eventClassification, input_files, fi, yi, ci,
                   open_inputs, event_selection, weight, columns, hist_name,
                   written>>

Next ==
    \/ Finish
    \/ OpenInputFile
    \/ RaiseFileNotFound
    \/ RaiseTreeNotFound
    \/ SkipSelection
    \/ ApplySelection
    \/ CloseInputFile
    \/ AssignWeight
    \/ NextSelection
    \/ OpenOutput
    \/ WriteHistogram
    \/ NextSystematic
    \/ BreakForData
    \/ hdOpenInputFile
    \/ hdOpenOutput
    \/ hdWriteHistogram
    \/ hdCloseOutput

Spec == Init /\ [][Next]_vars

SpecOptions == InitOptions /\ [][Next]_vars

-----------------------------------------------------------------------------
(* Vocabulary of the properties *)

\* the sample identifier: file base name without "_tree.root"
SampleId(f) ==
    LET last == LastComponent(f)
    IN  SubSeq(last, 1, Len(last) - Len("_tree.root"))

\* number of occurrences of sub in s
CountOcc(sub, s) ==
    Cardinality({i \in 1..(Len(s) - Len(sub) + 1) : SubSeq(s, i, i + Len(sub) - 1) = sub})

Records == {written[i] : i \in DOMAIN written}

\* the histogram written last; every histogram of a run is the last one in
\* the state that follows its hist.Write()
HasWritten == Len(written) > 0
LastWritten == written[Len(written)]

\* the selection loop of the current input file has just ended
FileDone == pc = "sel" /\ si > Len(selection_names)

\* regions for which the current input file produced histograms
RegionsDone == {r.selection : r \in {q \in Records : q.infile = infile}}

Family4f     == {"ttbb", "ttbj"}
FamilyPowheg == {"ttcc", "ttcj", "ttLF"}

\* the local variable weight holds the weight of the current (infile, syst)
WeightAssigned ==
    \/ prog = "cards" /\ pc \in {"cat", "write"}
    \/ prog = "hdumper" /\ pc \in {"sel", "hist"}

IsCollisionData(f) ==
    Contains("Data", f) \/ Contains("singlee", f) \/ Contains("singlemu", f)

-----------------------------------------------------------------------------
(* prepareDatacards *)

bkgs ==
    <<"singletop", "ttbb-dps", "ttbb", "ttbj", "ttcc", "ttcj", "ttLF", "w-fxfx",
      "ttZ", "ttW", "diboson", "ttHbb", "ttHcc">>
signal == <<"ttWcb">>
all_procs == bkgs \o signal

\* keys of datacard_dict
bins == {datacard_dict[k][1] : k \in 1..Len(datacard_dict)}

\* the shapeSysts dictionary, <<name, processes>>, for the string y
shapeSysts(y) ==
    << <<"CMS_pileup_" \o y, all_procs>>,
       <<"CMS_JER" \o y, all_procs>>,
       <<"CMS_JES" \o y, all_procs>> >>

\* values of --year
YearStrings == {ToString(y) : y \in Years}

\* one input sample per registered process, after the samples of SamplePaths
AllSamples ==
    SamplePaths \o [k \in 1..Len(all_procs) |-> "in/" \o all_procs[k] \o "_tree.root"]

\* the histogram names prepareHistosForCards.process_trees writes into each
\* category file when it processes `files` for year y without a failure
CardContent(files, y) ==
    UNION { UNION { { HistName(files[i], selection_names[j], systematics(y)[k][1]) :
                        k \in IF BreaksAfterNominal(files[i])
                              THEN {1} ELSE 1..Len(systematics(y)) } :
                    j \in {jj \in 1..Len(selection_names) :
                              ~SkipsSelection(selection_names[jj], files[i])} } :
            i \in 1..Len(files) }

\* the .root files os.walk finds under inputdir: the category files of the
\* prepareHistosForCards run, which exist once a histogram was written
FilesUnderInputDir ==
    IF CardContent(input_files, year) = {} THEN {}
    ELSE {output_files[k] : k \in 1..Len(output_files)}

\* prepareHistosForCards has run on input_files; prepareDatacards starts
InitDatacard ==
    /\ IdleMore /\ IdleScores /\ IdleScan /\ IdleFix
    /\ prog = "cards"
    /\ year \in Years
    /\ eventClassification = FALSE
    /\ input_files \in FileLists(1) \cup {AllSamples}
    /\ pc = "done"
    /\ fi = Len(input_files) + 1
    /\ si = 1
    /\ yi = 1
    /\ ci = 1
    /\ open_inputs = {}
    /\ open_outputs = {}
    /\ event_selection = ""
    /\ weight = ""
    /\ columns = << >>
    /\ hist_name = ""
    /\ written = << >>
    /\ electron = FALSE
    /\ muon = FALSE
    /\ add_selection = ""
    /\ dpc = "start"
    /\ dyear \in YearStrings
    /\ cb_procs = {}
    /\ cb_systs = {}
    /\ inputfiles = << >>
    /\ shape_lookups = {}

processVars ==
    <<prog, year, eventClassification, input_files, pc, fi, si, yi, ci,
      open_inputs, open_outputs, event_selection, weight, columns, hist_name,
      written, optionVars>>

\* cb.AddObservations, cb.AddProcesses (backgrounds, then signal)
AddProcesses ==
    /\ dpc = "start"
    /\ cb_procs' = {<<b, "data_obs", "obs">> : b \in bins}
                   \cup {<<b, bkgs[k], "bkg">> : b \in bins, k \in 1..Len(bkgs)}
                   \cup {<<b, signal[k], "sig">> : b \in bins, k \in 1..Len(signal)}
    /\ dpc' = "lumi"
    /\ UNCHANGED <<processVars, moreVars, scoreVars, scanVars, fixVars, dyear, cb_systs, inputfiles,
                   shape_lookups>>

\* if year == '2018': AddSyst(CMS_lumi_13TeV_2018, lnN)
AddLumi ==
    /\ dpc = "lumi"
    /\ cb_systs' = IF dyear = "2018"
                   THEN cb_systs \cup {<<"CMS_lumi_13TeV_2018", "lnN">>}
                   ELSE cb_systs
    /\ dpc' = "walk"
    /\ UNCHANGED <<processVars, moreVars, scoreVars, scanVars, fixVars, dyear, cb_procs, inputfiles,
                   shape_lookups>>

\* inputfiles = {bin: ""}, then os.walk(inputdir)
WalkInputDir ==
    /\ dpc = "walk"
    /\ inputfiles' =
          [k \in 1..Len(datacard_dict) |->
              LET bin == datacard_dict[k][1]
                  hit == {f \in FilesUnderInputDir :
                             Replace(LastComponent(f), ".root", "") = bin}
              IN  <<bin, IF hit = {} THEN "" ELSE CHOOSE f \in hit : TRUE>>]
    /\ dpc' = "systs"
    /\ UNCHANGED <<processVars, moreVars, scoreVars, scanVars, fixVars, dyear, cb_procs, cb_systs,
                   shape_lookups>>

\* shape systematics added so far by `for syst in shapeSysts`
ShapeSysts == {x \in cb_systs : x[2] = "shape"}

\* one iteration of `for syst in shapeSysts`
AddSyst ==
    /\ dpc = "systs"
    /\ Cardinality(ShapeSysts) < Len(shapeSysts(dyear))
    /\ cb_systs' = cb_systs \cup
                      {<<shapeSysts(dyear)[Cardinality(ShapeSysts) + 1][1], "shape">>}
    /\ UNCHANGED <<processVars, moreVars, scoreVars, scanVars, fixVars, dpc, dyear, cb_procs,
                   inputfiles, shape_lookups>>

\* end of `for syst in shapeSysts`
EndSysts ==
    /\ dpc = "systs"
    /\ Cardinality(ShapeSysts) = Len(shapeSysts(dyear))
    /\ dpc' = "shapes"
    /\ UNCHANGED <<processVars, moreVars, scoreVars, scanVars, fixVars, dyear, cb_procs, cb_systs,
                   inputfiles, shape_lookups>>

\* bins for which ExtractShapes has run
BinsExtracted == {l.bin : l \in shape_lookups}

\* inputfiles[b]
InputFileOf(b) ==
    (CHOOSE e \in {inputfiles[k] : k \in DOMAIN inputfiles} : e[1] = b)[2]

\* the histograms ExtractShapes looks for in the file of bin b, which holds
\* the histograms `held`: "$PROCESS" for every process, and
\* "$PROCESS_$SYSTEMATIC" Up and Down for every process the shape systematic
\* is registered for
Lookups(b, held) ==
    LET procs == {e \in cb_procs : e[1] = b}
        registered(p) ==
            {shapeSysts(dyear)[k][1] : k \in
                {kk \in 1..Len(shapeSysts(dyear)) :
                    \E i \in 1..Len(shapeSysts(dyear)[kk][2]) :
                        shapeSysts(dyear)[kk][2][i] = p}}
    IN  {[bin |-> b, process |-> e[2], systematic |-> "", name |-> e[2],
          found |-> e[2] \in held] : e \in procs}
        \cup
        {[bin |-> b, process |-> x[1][2], systematic |-> x[2],
          name |-> x[1][2] \o "_" \o x[2] \o x[3],
          found |-> (x[1][2] \o "_" \o x[2] \o x[3]) \in held] :
            x \in {y \in procs \X {s[1] : s \in ShapeSysts} \X {"Up", "Down"} :
                      y[2] \in registered(y[1][2])}}

\* one iteration of `for bin in bins` (a set: any order)
ExtractShapes ==
    /\ dpc = "shapes"
    /\ \E b \in bins \ BinsExtracted :
          \E held \in {IF InputFileOf(b) = "" THEN {}
                       ELSE CardContent(input_files, year)} :
              shape_lookups' = shape_lookups \cup Lookups(b, held)
    /\ UNCHANGED <<processVars, moreVars, scoreVars, scanVars, fixVars, dpc, dyear, cb_procs,
                   cb_systs, inputfiles>>

\* cb.WriteDatacard
WriteDatacard ==
    /\ dpc = "shapes"
    /\ BinsExtracted = bins
    /\ dpc' = "done"
    /\ UNCHANGED <<processVars, moreVars, scoreVars, scanVars, fixVars, dyear, cb_procs, cb_systs,
                   inputfiles, shape_lookups>>

NextDatacard ==
    \/ AddProcesses
    \/ AddLumi
    \/ WalkInputDir
    \/ AddSyst
    \/ EndSysts
    \/ ExtractShapes
    \/ WriteDatacard

SpecDatacard == InitDatacard /\ [][NextDatacard]_vars

-----------------------------------------------------------------------------
(* Fractional scores *)

\* the raw score columns of the tree
raw_score_names ==
    <<"score_ttbb", "score_ttbj", "score_ttcc", "score_ttcj", "score_ttLF">>

\* variant of fscore_defs: score_ttLF left out of one denominator
fscore_defs_ShortDenominator ==
    << <<"fscore_ttbb", "score_ttbb",
         <<"score_ttbb", "score_ttbj", "score_ttcc", "score_ttcj", "score_ttLF">> >>,
       <<"fscore_ttbj", "score_ttbj",
         <<"score_ttbb", "score_ttbj", "score_ttcc", "score_ttcj", "score_ttLF">> >>,
       <<"fscore_ttcc", "score_ttcc",
         <<"score_ttbb", "score_ttbj", "score_ttcc", "score_ttcj", "score_ttLF">> >>,
       <<"fscore_ttcj", "score_ttcj",
         <<"score_ttbb", "score_ttbj", "score_ttcc", "score_ttcj">> >>,
       <<"fscore_ttLF", "score_ttLF",
         <<"score_ttbb", "score_ttbj", "score_ttcc", "score_ttcj", "score_ttLF">> >> >>

\* the five df.Define calls, <<column, numerator, terms of the denominator>>,
\* for the expressions "<numerator> / (<term> + <term> + ...)"
fscore_defs ==
    << <<"fscore_ttbb", "score_ttbb",
         <<"score_ttbb", "score_ttbj", "score_ttcc", "score_ttcj", "score_ttLF">> >>,
       <<"fscore_ttbj", "score_ttbj",
         <<"score_ttbb", "score_ttbj", "score_ttcc", "score_ttcj", "score_ttLF">> >>,
       <<"fscore_ttcc", "score_ttcc",
         <<"score_ttbb", "score_ttbj", "score_ttcc", "score_ttcj", "score_ttLF">> >>,
       <<"fscore_ttcj", "score_ttcj",
         <<"score_ttbb", "score_ttbj", "score_ttcc", "score_ttcj", "score_ttLF">> >>,
       <<"fscore_ttLF", "score_ttLF",
         <<"score_ttbb", "score_ttbj", "score_ttcc", "score_ttcj", "score_ttLF">> >> >>

\* value of column c for the event
RawOf(c) == raw_scores[CHOOSE k \in DOMAIN raw_score_names : raw_score_names[k] = c]

RECURSIVE SumTerms(_, _)
SumTerms(terms, n) ==
    IF n = 0 THEN 0 ELSE SumTerms(terms, n - 1) + RawOf(terms[n])

\* one event with its raw scores; the script that defines the fractional
\* scores: prepareHistosForCards, or hdumper with --eventClassification
InitScores ==
    /\ IdleMore /\ IdleDatacard /\ IdleScan /\ IdleFix
    /\ prog \in {"cards", "hdumper"}
    /\ eventClassification = (prog = "hdumper")
    /\ year = 2018
    /\ input_files = << >>
    /\ pc = "done"
    /\ fi = 1
    /\ si = 1
    /\ yi = 1
    /\ ci = 1
    /\ open_inputs = {}
    /\ open_outputs = {}
    /\ event_selection = ""
    /\ weight = ""
    /\ columns = << >>
    /\ hist_name = ""
    /\ written = << >>
    /\ electron = FALSE
    /\ muon = FALSE
    /\ add_selection = ""
    /\ raw_scores \in [DOMAIN raw_score_names -> 0..MaxScore]
    /\ defined = << >>

\* df.Define of the next fractional score, evaluated for the event: the
\* quotient is kept as <<numerator, denominator>>
DefineFscore ==
    /\ prog = "cards" \/ eventClassification
    /\ Len(defined) < Len(fscore_defs)
    /\ LET d == fscore_defs[Len(defined) + 1]
       IN  defined' = Append(defined,
                         <<d[1], RawOf(d[2]), SumTerms(d[3], Len(d[3]))>>)
    /\ UNCHANGED <<processVars, moreVars, datacardVars, scanVars, fixVars, raw_scores>>

NextScores == DefineFscore

SpecScores == InitScores /\ [][NextScores]_vars

-----------------------------------------------------------------------------
(* Threshold scan of makeRocs.make_rocs and estimateCut.estimate_cut *)

(* `cut` is a Python float, an IEEE binary64.  Every value it takes is a     *)
(* multiple of 2^-59 below 2^60 units, held as four 15-bit limbs, least      *)
(* significant first.                                                        *)
LimbBase == 32768

\* bounds of the significand and of one limb, in bits
SignificandBits == 53
LimbBits == 15

\* the float 0.01 = 5764607523034235 * 2^-59
Step == <<5243, 3932, 27525, 163>>

\* the float 1. = 2^59 * 2^-59
One == <<0, 0, 0, 16384>>

RECURSIVE Pow2(_)
Pow2(n) == IF n = 0 THEN 1 ELSE 2 * Pow2(n - 1)

\* number of bits of x, 0 <= x < 2^31
RECURSIVE BitLen(_)
BitLen(x) == IF x = 0 THEN 0 ELSE 1 + BitLen(x \div 2)

\* carry propagation: limbs back into 0..LimbBase-1 (the top limb keeps the rest)
Normalize(l) ==
    LET c1 == l[1] \div LimbBase
        v2 == l[2] + c1
        c2 == v2 \div LimbBase
        v3 == l[3] + c2
        c3 == v3 \div LimbBase
    IN  <<l[1] % LimbBase, v2 % LimbBase, v3 % LimbBase, l[4] + c3>>

\* round to nearest, ties to even, at SignificandBits significant bits; the
\* top limb is not 0 and at most LimbBits - 1 low bits are dropped
Round53(l) ==
    LET drop == (3 * LimbBits + BitLen(l[4])) - SignificandBits
    IN  IF drop <= 0 THEN l
        ELSE LET unit == Pow2(drop)
                 rest == l[1] % unit
                 kept == l[1] - rest
                 odd  == (kept \div unit) % 2 = 1
                 up   == rest * 2 > unit \/ (rest * 2 = unit /\ odd)
             IN  Normalize(<<IF up THEN kept + unit ELSE kept, l[2], l[3], l[4]>>)

\* a + b on floats
FloatAdd(a, b) == Round53(Normalize([i \in 1..4 |-> a[i] + b[i]]))

\* k * a for a small integer k and a float a
FloatTimes(k, a) == Round53(Normalize([i \in 1..4 |-> k * a[i]]))

\* a < b on floats
FloatLess(a, b) ==
    \E i \in 1..4 : a[i] < b[i] /\ \A j \in (i + 1)..4 : a[j] = b[j]

\* the histograms read from the files, the empty default histogram included
HistValues == [1..NBins -> 0..MaxContent]

\* TAxis.FindBin for NBins equal bins on [0, 1]: 1 + int(NBins * x)
FindBin(x) == 1 + (FloatTimes(NBins, x)[4] \div One[4])

\* TH1.Integral(first, last)
RECURSIVE Integral(_, _, _)
Integral(h, first, last) ==
    IF first > last THEN 0 ELSE h[first] + Integral(h, first + 1, last)

\* variant of bkg_ratio: the integral on the left of the cut
bkg_ratio_Left ==
    <<Integral(bkg_hist, 1, FindBin(cut) - 1), Integral(bkg_hist, 1, NBins)>>

\* bkg_integral_right / bkg_integral_total, kept as <<numerator, denominator>>
bkg_ratio ==
    <<Integral(bkg_hist, FindBin(cut), NBins), Integral(bkg_hist, 1, NBins)>>

\* sig_integral_right / sig_integral_total, kept as <<numerator, denominator>>
sig_ratio ==
    <<Integral(sig_hist, FindBin(cut), NBins), Integral(sig_hist, 1, NBins)>>

\* variant of DivisionFails: only the background total is looked at
DivisionFails_BkgOnly == Integral(bkg_hist, 1, NBins) = 0

\* one of the two float divisions of the loop body has divisor 0.0
DivisionFails ==
    Integral(bkg_hist, 1, NBins) = 0 \/ Integral(sig_hist, 1, NBins) = 0

\* entry of the scan loop in either script, with the two histograms the file
\* loop has left
InitScan ==
    /\ IdleMore /\ IdleDatacard /\ IdleScores /\ IdleFix
    /\ prog \in {"makeRocs", "estimateCut"}
    /\ eventClassification = FALSE
    /\ year = 2018
    /\ input_files = << >>
    /\ pc = "done"
    /\ fi = 1
    /\ si = 1
    /\ yi = 1
    /\ ci = 1
    /\ open_inputs = {}
    /\ open_outputs = {}
    /\ event_selection = ""
    /\ weight = ""
    /\ columns = << >>
    /\ hist_name = ""
    /\ written = << >>
    /\ electron = FALSE
    /\ muon = FALSE
    /\ add_selection = ""
    /\ scan_pc = "scan"
    /\ cut = Step
    /\ points = << >>
    /\ sig_hist \in HistValues
    /\ bkg_hist \in HistValues
    /\ roc = << >>
    /\ stack = << >>

\* one iteration of `while cut < 1.`: roc_curve.SetPoint at index GetN() for
\* the threshold cut, then cut += 0.01
ScanStep ==
    /\ scan_pc = "scan"
    /\ FloatLess(cut, One)
    /\ ~DivisionFails
    /\ points' = Append(points, cut)
    /\ \E s \in {sig_ratio}, b \in {bkg_ratio} :
          roc' = Append(roc, <<s, <<b[2] - b[1], b[2]>> >>)
    /\ cut' = FloatAdd(cut, Step)
    /\ UNCHANGED <<processVars, moreVars, datacardVars, scoreVars, fixVars, scan_pc, sig_hist,
                   bkg_hist, stack>>

\* ZeroDivisionError in the loop body, before SetPoint; nothing catches it
RaiseZeroDivision ==
    /\ scan_pc = "scan"
    /\ FloatLess(cut, One)
    /\ DivisionFails
    /\ scan_pc' = "raised"
    /\ UNCHANGED <<processVars, moreVars, datacardVars, scoreVars, fixVars, cut, points, sig_hist,
                   bkg_hist, roc, stack>>

\* `while cut < 1.` is left; make_rocs goes on to the area, estimate_cut returns
ScanEnd ==
    /\ scan_pc = "scan"
    /\ ~FloatLess(cut, One)
    /\ scan_pc' = IF prog = "makeRocs" THEN "area" ELSE "done"
    /\ UNCHANGED <<processVars, moreVars, datacardVars, scoreVars, fixVars, cut, points, sig_hist,
                   bkg_hist, roc, stack>>

\* make_rocs: the area loop over the points, then return
ComputeArea ==
    /\ scan_pc = "area"
    /\ scan_pc' = "done"
    /\ UNCHANGED <<processVars, moreVars, datacardVars, scoreVars, fixVars, cut, points, sig_hist,
                   bkg_hist, roc, stack>>

NextScan ==
    \/ ScanStep
    \/ RaiseZeroDivision
    \/ ScanEnd
    \/ ComputeArea

SpecScan == InitScan /\ [][NextScan]_vars

-----------------------------------------------------------------------------
(* fixNegativeBins *)

(* Bin contents and errors are multiples of EPSILON, so EPSILON is 1 unit;    *)
(* the contents and errors of an input histogram are multiples of            *)
(* ContentUnit units, so that no input content equals EPSILON.               *)
EPSILON == 1
ContentUnit == 2

\* s ends with suffix (str.endswith)
EndsWith(s, suffix) ==
    Len(suffix) <= Len(s) /\ SubSeq(s, Len(s) - Len(suffix) + 1, Len(s)) = suffix

\* h.Integral(1, h.GetNbinsX())
RECURSIVE SumContents(_, _)
SumContents(h, n) == IF n = 0 THEN 0 ELSE SumContents(h, n - 1) + h[n][1]

\* variant of FixIteration: the uncertainty is clamped for every name
FixIteration_AnyName(h, i, name) ==
    LET h1 == IF h[i][1] < 0 THEN [h EXCEPT ![i] = <<0, @[2]>>] ELSE h
        h2 == IF h1[i][2] > h1[i][1]
              THEN [h1 EXCEPT ![i] = <<@[1], h1[i][1]>>]
              ELSE h1
    IN  IF SumContents(h2, Len(h2)) = 0
        THEN [h2 EXCEPT ![1] = <<EPSILON, EPSILON>>]
        ELSE h2

\* variant of FixIteration: negative contents are kept
FixIteration_KeepNegative(h, i, name) ==
    LET h2 == IF h[i][2] > h[i][1] /\ ~(EndsWith(name, "Up") \/ EndsWith(name, "Down"))
              THEN [h EXCEPT ![i] = <<@[1], h[i][1]>>]
              ELSE h
    IN  IF SumContents(h2, Len(h2)) = 0
        THEN [h2 EXCEPT ![1] = <<EPSILON, EPSILON>>]
        ELSE h2

\* variant of FixIteration: an empty histogram is left empty
FixIteration_NoEpsilon(h, i, name) ==
    LET h1 == IF h[i][1] < 0 THEN [h EXCEPT ![i] = <<0, @[2]>>] ELSE h
    IN  IF h1[i][2] > h1[i][1] /\ ~(EndsWith(name, "Up") \/ EndsWith(name, "Down"))
        THEN [h1 EXCEPT ![i] = <<@[1], h1[i][1]>>]
        ELSE h1

\* the body of `for i in range(1, h.GetNbinsX() + 1)` for bin i of h
FixIteration(h, i, name) ==
    LET h1 == IF h[i][1] < 0 THEN [h EXCEPT ![i] = <<0, @[2]>>] ELSE h
        h2 == IF h1[i][2] > h1[i][1] /\ ~(EndsWith(name, "Up") \/ EndsWith(name, "Down"))
              THEN [h1 EXCEPT ![i] = <<@[1], h1[i][1]>>]
              ELSE h1
    IN  IF SumContents(h2, Len(h2)) = 0
        THEN [h2 EXCEPT ![1] = <<EPSILON, EPSILON>>]
        ELSE h2

\* names of the keys of a directory of the shape file
KeyNames == {"ttbb", "ttbb_CMS_JES2018Up", "ttbb_CMS_JES2018Down"}

\* one bin: content -MaxContent..MaxContent, error 0..MaxContent + 1, in
\* multiples of ContentUnit
BinValues ==
    {<<c * ContentUnit, e * ContentUnit>> :
        c \in -MaxContent..MaxContent, e \in 0..(MaxContent + 1)}

\* histograms of 1..NBins bins
FixHists == UNION {[1..n -> BinValues] : n \in 1..NBins}

\* fixNegativeBins is called; e.ReadObj() has returned the object of one key
InitFix ==
    /\ IdleMore /\ IdleDatacard /\ IdleScores /\ IdleScan
    /\ prog = "fixNegativeBins"
    /\ eventClassification = FALSE
    /\ year = 2018
    /\ input_files = << >>
    /\ pc = "done"
    /\ fi = 1
    /\ si = 1
    /\ yi = 1
    /\ ci = 1
    /\ open_inputs = {}
    /\ open_outputs = {}
    /\ event_selection = ""
    /\ weight = ""
    /\ columns = << >>
    /\ hist_name = ""
    /\ written = << >>
    /\ electron = FALSE
    /\ muon = FALSE
    /\ add_selection = ""
    /\ fix_pc = "read"
    /\ fix_call = 1
    /\ fix_name \in KeyNames
    /\ fix_isTH1 \in BOOLEAN
    /\ fix_in \in (IF fix_isTH1 THEN FixHists ELSE {<< >>})
    /\ fix_h = fix_in
    /\ fix_i = 1
    /\ fix_out = << >>

\* `if h.IsA().InheritsFrom(ROOT.TH1.Class())` is false: nothing is written
SkipObject ==
    /\ fix_pc = "read"
    /\ ~fix_isTH1
    /\ fix_pc' = "closed"
    /\ UNCHANGED <<processVars, moreVars, datacardVars, scoreVars, scanVars, fix_call,
                   fix_name, fix_isTH1, fix_in, fix_h, fix_i, fix_out>>

\* the object is a TH1: enter the bin loop
EnterBinLoop ==
    /\ fix_pc = "read"
    /\ fix_isTH1
    /\ fix_pc' = "bins"
    /\ fix_i' = 1
    /\ UNCHANGED <<processVars, moreVars, datacardVars, scoreVars, scanVars, fix_call,
                   fix_name, fix_isTH1, fix_in, fix_h, fix_out>>

\* one iteration of the bin loop
FixBin ==
    /\ fix_pc = "bins"
    /\ fix_i <= Len(fix_h)
    /\ fix_h' = FixIteration(fix_h, fix_i, fix_name)
    /\ fix_i' = fix_i + 1
    /\ UNCHANGED <<processVars, moreVars, datacardVars, scoreVars, scanVars, fix_pc,
                   fix_call, fix_name, fix_isTH1, fix_in, fix_out>>

\* outdir.cd(); h.Write(name, kOverwrite); then fout.Close(), f.Close()
WriteFixed ==
    /\ fix_pc = "bins"
    /\ fix_i > Len(fix_h)
    /\ fix_out' = Append(fix_out, fix_h)
    /\ fix_pc' = "closed"
    /\ UNCHANGED <<processVars, moreVars, datacardVars, scoreVars, scanVars, fix_call,
                   fix_name, fix_isTH1, fix_in, fix_h, fix_i>>

\* fixNegativeBins is called again on the file the first call has written
CallAgain ==
    /\ fix_pc = "closed"
    /\ fix_call = 1
    /\ Len(fix_out) = 1
    /\ fix_call' = 2
    /\ fix_h' = fix_out[1]
    /\ fix_i' = 1
    /\ fix_pc' = "read"
    /\ UNCHANGED <<processVars, moreVars, datacardVars, scoreVars, scanVars, fix_name,
                   fix_isTH1, fix_in, fix_out>>

NextFix ==
    \/ SkipObject
    \/ EnterBinLoop
    \/ FixBin
    \/ WriteFixed
    \/ CallAgain

SpecFix == InitFix /\ [][NextFix]_vars

-----------------------------------------------------------------------------
(* Properties *)

\* C1: within one category output file of prepareHistosForCards, two
\* histograms written for different (sample, region, systematic) combinations
\* never carry the same histogram name.
C1_UniqueHistogramNames ==
    (prog = "cards" /\ HasWritten) =>
        \A r \in Records :
            (r.file = LastWritten.file /\ r.name = LastWritten.name) =>
                /\ r.selection = LastWritten.selection
                /\ r.syst = LastWritten.syst
                /\ SampleId(r.infile) = SampleId(LastWritten.infile)

\* C2: every histogram of a sample whose identifier contains "data" or "Data"
\* is filled with the weight column defined as the constant "1" (both scripts).
C2_DataWeightIsOne ==
    HasWritten =>
        LET r == LastWritten
        IN  (Contains("data", r.infile) \/ Contains("Data", r.infile)) => r.weight = "1"

\* C3: a sample matching no ttbar-component identifier is processed in exactly
\* the base region; a ttbar-component sample in exactly one non-base family.
C3_ExactlyOneFamily ==
    FileDone =>
        IF ~AnyIn(tt_file_names, infile)
        THEN RegionsDone = {"base"}
        ELSE RegionsDone \in {Family4f, FamilyPowheg}

\* C4: the regions processed for one sample never contain both the base
\* region and a non-base region.
C4_BaseExcludesComponents ==
    HasWritten =>
        \A r \in Records :
            r.infile = LastWritten.infile =>
                (r.selection = "base" <=> LastWritten.selection = "base")

C4_Witness ==
    /\ FileDone
    /\ fi = 2
    /\ RegionsDone = Family4f
    /\ \E r \in Records : r.infile = input_files[1] /\ r.selection = "base"

\* C5 (as stated): ttbb and ttbj are processed only for a sample carrying the
\* "4f" token, and ttcc, ttcj, ttLF only for a sample carrying "powheg".
C5_Only4fToken ==
    FileDone =>
        /\ (RegionsDone \cap Family4f # {} => Contains("4f", infile))
        /\ (RegionsDone \cap FamilyPowheg # {} => Contains("powheg", infile))

\* C5 (amended): ttbb and ttbj are processed exactly for the ttbar-component
\* samples whose path contains "bb" (ttbb-4f and ttbb-dps alike), and ttcc,
\* ttcj, ttLF exactly for the ttbar-component samples whose path contains
\* "powheg".
C5_RoutedByBbAndPowheg ==
    FileDone =>
        /\ \A g \in Family4f :
              g \in RegionsDone <=>
                  (AnyIn(tt_file_names, infile) /\ Contains("bb", infile))
        /\ \A g \in FamilyPowheg :
              g \in RegionsDone <=>
                  (AnyIn(tt_file_names, infile) /\ Contains("powheg", infile))

C5_Witness ==
    /\ FileDone
    /\ Contains("ttbb-dps", infile)
    /\ RegionsDone = Family4f

\* C6 (as stated): for a year other than 2018 the nominal weight is exactly "1".
C6_FallbackIsOne ==
    (WeightAssigned /\ year # 2018 /\ (prog = "cards" => syst = "None")) =>
        weight = "1"

\* C6 (amended): for a year other than 2018 the nominal weight is "1" followed
\* by the "*topptWeight" factors of the sample; it is exactly "1" if and only
\* if the path contains neither "ttbar" nor "4f".
C6_FallbackBaseIsOne ==
    (WeightAssigned /\ year # 2018 /\ (prog = "cards" => syst = "None")) =>
        /\ weight \in {"1", "1*topptWeight", "1*topptWeight*topptWeight"}
        /\ weight = "1" <=> (~Contains("ttbar", infile) /\ ~Contains("4f", infile))

C6_Witness ==
    /\ WeightAssigned
    /\ year # 2018
    /\ prog = "cards" => syst = "None"
    /\ Contains("ttW", infile)
    /\ weight = "1"

\* C7: the number of "*topptWeight" factors in the weight is
\* (1 if the path contains "ttbar") + (1 if the path contains "4f").
C7_TopPtFactorCount ==
    WeightAssigned =>
        CountOcc("*topptWeight", weight) =
            (IF Contains("ttbar", infile) THEN 1 ELSE 0)
          + (IF Contains("4f", infile) THEN 1 ELSE 0)

C7_Witness ==
    /\ WeightAssigned
    /\ Contains("ttbar", infile) /\ Contains("4f", infile)
    /\ CountOcc("*topptWeight", weight) = 2

\* C8: in prepareHistosForCards the weight of the nominal key "None" is
\* assign_event_weight with an empty systematic, and the weight of any other
\* key is that nominal expression followed by "*" and the registered ratio;
\* for a sample that is not data, this is the expression of the weight column,
\* and the nominal column of the same selection holds the nominal expression.
C8_SystematicIsNominalTimesRatio ==
    (prog = "cards" /\ pc \in {"cat", "write"}) =>
        LET nominal == assign_event_weight(year, infile, "")
            ratio   == systematics(year)[yi][2]
            last    == columns[Len(columns)]
        IN  /\ syst = "None" => weight = nominal
            /\ syst # "None" => weight = nominal \o "*" \o ratio
            /\ last[1] = "weight_column" \o syst
            /\ ~Contains("data", infile) =>
                  /\ last[2] = weight
                  /\ columns[1][2] = nominal

C8_Witness ==
    /\ prog = "cards"
    /\ pc = "write"
    /\ syst # "None"
    /\ ~Contains("data", infile)
    /\ Len(columns) > 1
    /\ weight = columns[1][2] \o "*" \o systematics(year)[yi][2]

\* C9: the name of every histogram written by prepareHistosForCards is the
\* sample identifier, or the region name for a ttbar-component sample, or
\* "data_obs" for the Data sample (which wins over the region name), followed
\* by "_<systematic>" exactly when the systematic is not "None".
C9_HistogramName ==
    (prog = "cards" /\ HasWritten) =>
        LET r    == LastWritten
            base == IF Contains("Data", r.infile) THEN "data_obs"
                    ELSE IF AnyIn(tt_file_names, r.infile) THEN r.selection
                    ELSE SampleId(r.infile)
        IN  /\ r.syst = "None" => r.name = base
            /\ r.syst # "None" => r.name = base \o "_" \o r.syst

C9_Witness ==
    /\ prog = "cards"
    /\ HasWritten
    /\ LastWritten.selection = "ttcj"
    /\ LastWritten.syst = "CMS_JES" \o ToString(year) \o "Down"
    /\ LastWritten.name = "ttcj_CMS_JES" \o ToString(year) \o "Down"
    /\ \E r \in Records : r.name = "data_obs" /\ Contains("Data", r.infile)

\* C10: every histogram written by prepareHistosForCards for a collision-data
\* sample (Data, singlee, singlemu) is named exactly "data_obs".
C10_DataIsDataObs ==
    (prog = "cards" /\ HasWritten) =>
        (IsCollisionData(LastWritten.infile) => LastWritten.name = "data_obs")


\* C11: for a collision-data sample (Data, singlee, singlemu) the systematics
\* loop stops after the nominal pass: every histogram written for it is
\* nominal and carries no suffix, no (region, category) gets a second
\* histogram, and when its selection loop ends each processed region has
\* exactly one histogram per category.
C11_DataNominalOnly ==
    /\ (prog = "cards" /\ HasWritten /\ IsCollisionData(LastWritten.infile)) =>
          /\ LastWritten.syst = "None"
          /\ ~Contains("_CMS_", LastWritten.name)
          /\ \A i \in 1..(Len(written) - 1) :
                ~(/\ written[i].infile = LastWritten.infile
                  /\ written[i].selection = LastWritten.selection
                  /\ written[i].file = LastWritten.file)
    /\ (prog = "cards" /\ FileDone /\ IsCollisionData(infile)) =>
          \A g \in RegionsDone : \A k \in 1..Len(output_files) :
              \E r \in Records :
                  r.infile = infile /\ r.selection = g /\ r.file = output_files[k]

\* C14: the output file of a histogram depends only on its discriminant; the
\* six category files are pairwise distinct; and the file of discriminant d
\* is named after the prepareDatacards bin whose "distribution" is d.
C14_FileByCategory ==
    /\ \A i, j \in 1..Len(output_files) : i # j => output_files[i] # output_files[j]
    /\ (prog = "cards" /\ HasWritten) =>
          /\ \A r \in Records :
                (r.score = LastWritten.score) <=> (r.file = LastWritten.file)
          /\ \E k \in 1..Len(datacard_dict) :
                /\ datacard_dict[k][2] = LastWritten.score
                /\ LastWritten.file =
                      output_dir \o ToString(year) \o "/" \o datacard_dict[k][1] \o ".root"

C14_Witness ==
    /\ prog = "cards"
    /\ HasWritten
    /\ LastWritten.score = "score_tt_Wcb"
    /\ LastWritten.file = output_dir \o ToString(year) \o "/Vcb_catWcb_SR.root"
    /\ \E r \in Records :
          /\ r.file = LastWritten.file
          /\ r.infile # LastWritten.infile
          /\ r.syst # LastWritten.syst

\* C15: in prepareHistosForCards at most one category output file is open at
\* any time; a file is opened only when none is open, the only thing that
\* happens to an open file is one histogram write together with its close,
\* and no histogram is written outside such an open file.
C15_OneOutputOpen ==
    /\ [](prog = "cards" => Cardinality(open_outputs) <= 1)
    /\ [][ prog = "cards" =>
             /\ open_outputs' # open_outputs =>
                   \/ /\ open_outputs = {}
                      /\ Cardinality(open_outputs') = 1
                      /\ written' = written
                   \/ /\ open_outputs' = {}
                      /\ Len(written') = Len(written) + 1
             /\ written' # written =>
                   /\ Len(written') = Len(written) + 1
                   /\ open_outputs = {written'[Len(written')].file}
                   /\ open_outputs' = {} ]_vars

C15_Witness ==
    /\ prog = "cards"
    /\ pc = "write"
    /\ open_outputs = {output_files[2]}
    /\ HasWritten
    /\ LastWritten.file = output_files[1]

\* C16: when process_trees fails after the input file was opened, the input
\* file has been closed when the exception leaves process_trees.
C16_InputClosedOnFailure ==
    pc = "raised" => open_inputs = {}

\* C17: a failure on one input sample aborts only that sample: when the run
\* has ended with an exception (pc = "raised" has no successor), every sample
\* listed after the failing one has its histograms.
C17_RemainingSamplesProduced ==
    pc = "raised" =>
        \A k \in (fi + 1)..Len(input_files) :
            \E r \in Records : r.infile = input_files[k]

\* the current (infile, selection_name) passed the skip rules and
\* event_selection holds its predicate
Processing == pc \in {"syst", "cat", "write", "hist"}

\* the base predicate: the literal with the trigger terms and the additional
\* selection appended
BasePredicate ==
    selections_literal["base"]
        \o (IF electron THEN " && passTrigEl" ELSE "")
        \o (IF muon THEN " && passTrigMu" ELSE "")
        \o (IF add_selection # "" THEN " && (" \o add_selection \o ")" ELSE "")

\* number of positions before i of s that hold the character c
CountBefore(c, s, i) ==
    Cardinality({j \in 1..(i - 1) : SubSeq(s, j, j) = c})

\* "||" occurs in s outside every pair of parentheses
TopLevelOr(s) ==
    \E i \in 1..(Len(s) - 1) :
        /\ SubSeq(s, i, i + 1) = "||"
        /\ CountBefore("(", s, i) = CountBefore(")", s, i)

\* s begins with p
StartsWith(p, s) == Len(p) <= Len(s) /\ SubSeq(s, 1, Len(p)) = p

\* what follows the base predicate in event_selection
AfterBase ==
    IF StartsWith(BasePredicate, event_selection)
    THEN SubSeq(event_selection, Len(BasePredicate) + 1, Len(event_selection))
    ELSE ""

\* C18 (as stated): the predicate of a non-base region is the base predicate
\* ANDed with the region fragment, and the predicate of the base region is
\* the base predicate alone.
C18_BaseAlone ==
    Processing =>
        /\ StartsWith(BasePredicate, event_selection)
        /\ ~TopLevelOr(event_selection)
        /\ selection_name = "base" => AfterBase = ""
        /\ selection_name # "base" =>
              /\ AfterBase = selections[selection_name]
              /\ StartsWith(" && ", AfterBase)

\* C18 (amended): as stated, except that for a sample whose path contains
\* "singlee" the term " && passTrigMu==0" is ANDed last, in the base region
\* too; event_selection is always a conjunction that starts with the base
\* predicate.
C18_BaseAnded ==
    Processing =>
        LET tail == IF Contains("singlee", infile) THEN " && passTrigMu==0" ELSE ""
        IN  /\ StartsWith(BasePredicate, event_selection)
            /\ ~TopLevelOr(event_selection)
            /\ selection_name = "base" => AfterBase = tail
            /\ selection_name # "base" =>
                  /\ AfterBase = selections[selection_name] \o tail
                  /\ StartsWith(" && ", AfterBase)

C18_Witness ==
    /\ Processing
    /\ prog = "hdumper"
    /\ selection_name = "ttbj"
    /\ electron
    /\ add_selection # ""
    /\ AfterBase = selections["ttbj"]


\* the closed form CardContent agrees with the run: when process_trees of
\* prepareHistosForCards returns, every category file holds exactly the names
\* CardContent gives
CardContentIsWritten ==
    (prog = "cards" /\ pc = "done") =>
        \A k \in 1..Len(output_files) :
            {written[i].name : i \in {j \in DOMAIN written :
                                         written[j].file = output_files[k]}}
                = CardContent(input_files, year)

\* C12: when the category files were produced from all samples (one sample
\* per registered process among them), ExtractShapes finds the nominal
\* histogram "$PROCESS" of every process registered in bkgs and signal, in
\* every bin.
C12_EveryProcessHasHistogram ==
    (dpc = "done" /\ input_files = AllSamples) =>
        \A l \in shape_lookups :
            (l.systematic = "" /\ l.process # "data_obs") => l.found

\* C13: for one year used in both scripts, the non-nominal keys of the
\* systematics table of prepareHistosForCards are exactly S+"Up" and S+"Down"
\* for the shape systematics S registered by prepareDatacards, and every
\* variation ExtractShapes looks for, of a process whose nominal histogram
\* exists, exists.
C13_SuffixesAreShapeSysts ==
    (dpc \in {"shapes", "done"} /\ dyear = ToString(year)) =>
        /\ {systematics(year)[k][1] : k \in 2..Len(systematics(year))}
              = {x[1] \o d : x \in ShapeSysts, d \in {"Up", "Down"}}
        /\ systematics(year)[1][1] = "None"
        /\ \A l \in shape_lookups :
              (/\ l.systematic # ""
               /\ \E n \in shape_lookups :
                     /\ n.bin = l.bin /\ n.process = l.process
                     /\ n.systematic = "" /\ n.found)
                  => l.found

C13_Witness ==
    /\ dpc = "done"
    /\ dyear = "2018"
    /\ year = 2018
    /\ Cardinality(ShapeSysts) = 3
    /\ <<"CMS_lumi_13TeV_2018", "lnN">> \in cb_systs
    /\ \E l \in shape_lookups :
          l.found /\ l.name = "ttW_CMS_JES2018Down" /\ l.bin = "Vcb_catBB_CR"


\* product of the denominators of the defined columns other than column k
RECURSIVE OtherDenominators(_, _)
OtherDenominators(k, n) ==
    IF n = 0 THEN 1
    ELSE OtherDenominators(k, n - 1) * (IF n = k THEN 1 ELSE defined[n][3])

\* numerator of the sum of the first n defined quotients over the product of
\* all denominators
RECURSIVE CrossSum(_)
CrossSum(n) ==
    IF n = 0 THEN 0
    ELSE CrossSum(n - 1) + defined[n][2] * OtherDenominators(n, Len(defined))

\* C19: for an event whose five raw scores are not all zero, the five
\* fractional scores have one denominator, the sum of the five raw scores,
\* which is not zero, and they sum to 1.
C19_FractionsSumToOne ==
    (/\ Len(defined) = Len(fscore_defs)
     /\ \E k \in DOMAIN raw_scores : raw_scores[k] # 0) =>
        /\ \A k \in DOMAIN defined :
              /\ defined[k][3] = SumTerms(raw_score_names, Len(raw_score_names))
              /\ defined[k][3] # 0
        /\ CrossSum(Len(defined)) = OtherDenominators(0, Len(defined))

C19_Witness ==
    /\ Len(defined) = Len(fscore_defs)
    /\ raw_scores = <<1, 2, 0, 0, 1>>
    /\ defined[2] = <<"fscore_ttbj", 2, 4>>
    /\ defined[5] = <<"fscore_ttLF", 1, 4>>


\* number of thresholds the scan is said to evaluate
ScanPoints == 99

\* what holds of the scan whatever the rounding: one point per evaluated
\* threshold, thresholds increasing and below 1., ScanPoints of them when the
\* loop is left
ScanCountAndOrder ==
    /\ Len(points) <= ScanPoints
    /\ Len(points) > 0 => FloatLess(points[Len(points)], One)
    /\ Len(points) > 1 => FloatLess(points[Len(points) - 1], points[Len(points)])
    /\ scan_pc \in {"area", "done"} => Len(points) = ScanPoints

\* C20: the k-th point is set for the threshold k*0.01, there is one point
\* per threshold, the thresholds increase and stay below 1.0, and the scan
\* ends after the 99th.
C20_ThresholdsAreMultiples ==
    /\ ScanCountAndOrder
    /\ Len(points) > 0 => points[Len(points)] = FloatTimes(Len(points), Step)


\* C21: when the signal and the background histogram have the same bin
\* contents and a non-zero integral, every point (x, y) set on roc_curve
\* has y = 1 - x.
C21_IdenticalGivesDiagonal ==
    (sig_hist = bkg_hist /\ Len(roc) > 0) =>
        LET x == roc[Len(roc)][1]
            y == roc[Len(roc)][2]
        IN  /\ x[2] # 0 /\ y[2] # 0
            /\ y[1] * x[2] = (x[2] - x[1]) * y[2]

C21_Witness ==
    /\ sig_hist = bkg_hist
    /\ Len(roc) = ScanPoints
    /\ scan_pc = "done"
    /\ roc[1] = << <<2, 2>>, <<0, 2>> >>
    /\ roc[ScanPoints] = << <<1, 2>>, <<1, 2>> >>

\* C22: when the signal or the background histogram has total integral
\* zero, the scan raises at the first threshold: no point is ever set, and
\* the scan neither reaches the area nor returns.
C22_ZeroIntegralRaises ==
    (Integral(sig_hist, 1, NBins) = 0 \/ Integral(bkg_hist, 1, NBins) = 0) =>
        /\ roc = << >> /\ points = << >>
        /\ scan_pc \in {"scan", "raised"}
        /\ cut = Step

C22_Witness ==
    /\ scan_pc = "raised"
    /\ Integral(sig_hist, 1, NBins) = 0
    /\ Integral(bkg_hist, 1, NBins) # 0
    /\ roc = << >>


\* C23: every bin of every histogram fixNegativeBins has written has
\* content >= 0.
C23_NoNegativeContent ==
    \A k \in DOMAIN fix_out : \A i \in DOMAIN fix_out[k] : fix_out[k][i][1] >= 0

C23_Witness ==
    /\ Len(fix_out) = 1
    /\ Len(fix_in) = NBins
    /\ fix_in[1] = <<-ContentUnit, 0>>
    /\ fix_in[NBins] = <<-ContentUnit, ContentUnit>>
    /\ fix_out[1][NBins][1] = 0

C27_PositiveContentKept ==
    \A k \in DOMAIN fix_out : k = 1 =>
        \A i \in DOMAIN fix_in :
            \/ fix_out[k][i][1] = fix_in[i][1]
            \/ fix_in[i][1] < 0 /\ fix_out[k][i][1] = 0
            \/ /\ i = 1
               /\ fix_in[i][1] <= 0
               /\ \A j \in DOMAIN fix_in : fix_in[j][1] <= 0
               /\ fix_out[k][i][1] = EPSILON

\* C30: a histogram written by fixNegativeBins has a strictly positive
\* integral (an input without a positive bin has bin 1 = <<EPSILON, EPSILON>>),
\* and the second call writes the histogram the first call wrote.
C30_PositiveIntegralIdempotent ==
    /\ \A k \in DOMAIN fix_out :
          /\ SumContents(fix_out[k], Len(fix_out[k])) > 0
          /\ (k = 1 /\ \A j \in DOMAIN fix_in : fix_in[j][1] <= 0)
                => fix_out[k][1] = <<EPSILON, EPSILON>>
    /\ fix_call = 2 /\ fix_pc \in {"bins", "closed"} => fix_h = fix_out[1]
    /\ Len(fix_out) = 2 => fix_out[2] = fix_out[1]

C30_Witness ==
    /\ Len(fix_out) = 2
    /\ Len(fix_in) = NBins
    /\ \A j \in DOMAIN fix_in : fix_in[j] = <<-ContentUnit, ContentUnit>>
    /\ fix_out[2][1] = <<EPSILON, EPSILON>>
    /\ fix_out[2][NBins] = <<0, 0>>


-----------------------------------------------------------------------------
(* The glob loop of __main__ in hdumper and prepareHistosForCards *)

MaxDirs == 2

\* values of one element of --input_dirs
InputDirs == {"in/", "powheg/", ""}

\* the non-empty lists of at most n directories
RECURSIVE DirLists(_)
DirLists(n) ==
    IF n = 0 THEN {}
    ELSE {<<d>> : d \in InputDirs} \cup
         {Append(l, d) : l \in DirLists(n - 1), d \in InputDirs}

\* glob.glob(f"{input_dir}*.root") on a disk holding SamplePaths: the paths
\* that start with input_dir and go on without a further '/', in the order of
\* SamplePaths
Glob(input_dir) ==
    LET matches(p) ==
            /\ StartsWith(input_dir, p)
            /\ ~Contains("/", SubSeq(p, Len(input_dir) + 1, Len(p)))
            /\ EndsWith(p, ".root")
    IN  SelectSeq(SamplePaths, matches)

\* variables of process_trees that the glob loop does not touch
treeVars ==
    <<prog, year, eventClassification, si, yi, ci, open_inputs, open_outputs,
      event_selection, weight, columns, hist_name, written, optionVars>>

\* parse_args has returned; --input_dirs holds at least one directory
InitGlob ==
    /\ IdleDatacard /\ IdleScores /\ IdleScan /\ IdleFix
    /\ IdleCategories /\ IdleMerge
    /\ prog \in {"cards", "hdumper"}
    /\ year \in Years
    /\ eventClassification \in (IF prog = "hdumper" THEN BOOLEAN ELSE {FALSE})
    /\ pc = "glob"
    /\ fi = 1
    /\ si = 1
    /\ yi = 1
    /\ ci = 1
    /\ open_inputs = {}
    /\ open_outputs = {}
    /\ event_selection = ""
    /\ weight = ""
    /\ columns = << >>
    /\ hist_name = ""
    /\ written = << >>
    /\ electron = FALSE
    /\ muon = FALSE
    /\ add_selection = ""
    /\ input_dirs \in DirLists(MaxDirs)
    /\ glob_i = 1
    /\ input_files = << >>

\* one iteration of `for input_dir in args.input_dirs`: prepareHistosForCards
\* extends input_files, hdumper assigns it
GlobDir ==
    /\ pc = "glob"
    /\ glob_i <= Len(input_dirs)
    /\ input_files' = IF prog = "cards"
                      THEN input_files \o Glob(input_dirs[glob_i])
                      ELSE Glob(input_dirs[glob_i])
    /\ glob_i' = glob_i + 1
    /\ UNCHANGED <<treeVars, pc, fi, input_dirs, datacardVars, scoreVars, scanVars,
                   fixVars, categoryVars, mergeVars>>

\* the loop is over: input_files is handed to prepare_output and process_trees
CallProcessTrees ==
    /\ pc = "glob"
    /\ glob_i > Len(input_dirs)
    /\ pc' = "open"
    /\ UNCHANGED <<treeVars, fi, input_files, globVars, datacardVars, scoreVars,
                   scanVars, fixVars, categoryVars, mergeVars>>

NextGlob ==
    \/ GlobDir
    \/ CallProcessTrees

SpecGlob == InitGlob /\ [][NextGlob]_vars

\* the files of the directories dirs[1..n]
RECURSIVE FilesOfDirs(_, _)
FilesOfDirs(dirs, n) ==
    IF n = 0 THEN {}
    ELSE FilesOfDirs(dirs, n - 1) \cup {Glob(dirs[n])[k] : k \in DOMAIN Glob(dirs[n])}

\* C25: when process_trees is called, input_files holds the *.root files of
\* every directory of --input_dirs
C25_AllDirectoriesGlobbed ==
    (pc = "open" /\ input_dirs # << >>) =>
        {input_files[k] : k \in DOMAIN input_files} = FilesOfDirs(input_dirs, Len(input_dirs))

\* the same for prepareHistosForCards alone
C25_CardsGlobsAllDirectories ==
    (pc = "open" /\ input_dirs # << >> /\ prog = "cards") =>
        {input_files[k] : k \in DOMAIN input_files} = FilesOfDirs(input_dirs, Len(input_dirs))


-----------------------------------------------------------------------------
(* The file loop of estimate_cut (estimateCut.py, and its copy in makeRocs.py) *)

\* paths that glob can return for --input_dir
HistPaths == <<"plots/h_Wcb.root", "plots/h_Data.root", "plots/h_ttLF.root">>

\* the lists of at most n distinct paths, in any order
RECURSIVE HistFileLists(_)
HistFileLists(n) ==
    IF n = 0 THEN {<< >>}
    ELSE LET shorter == HistFileLists(n - 1)
         IN  shorter \cup
             { Append(l, HistPaths[k]) :
                 l \in {q \in shorter : Len(q) = n - 1},
                 k \in DOMAIN HistPaths }

\* bin-wise sum of the histograms of stack[1..n]: stack.GetStack().Last()
RECURSIVE SumOfStack(_, _)
SumOfStack(st, n) ==
    IF n = 0 THEN [b \in 1..NBins |-> 0]
    ELSE [b \in 1..NBins |-> SumOfStack(st, n - 1)[b] + st[n][2][b]]

\* variables of process_trees that the file loop of estimate_cut leaves alone
treeVars_NoOpen ==
    <<prog, year, eventClassification, si, yi, ci, open_outputs,
      event_selection, weight, columns, hist_name, written, optionVars>>

\* entry of estimate_cut: empty stack, sig_hist an empty histogram
InitStack ==
    /\ IdleMore /\ IdleDatacard /\ IdleScores /\ IdleFix
    /\ prog \in {"makeRocs", "estimateCut"}
    /\ eventClassification = FALSE
    /\ year = 2018
    /\ input_files \in {l \in HistFileLists(MaxFiles) :
                          \A j, k \in DOMAIN l : j # k => l[j] # l[k]}
    /\ pc = "done"
    /\ fi = 1
    /\ si = 1
    /\ yi = 1
    /\ ci = 1
    /\ open_inputs = {}
    /\ open_outputs = {}
    /\ event_selection = ""
    /\ weight = ""
    /\ columns = << >>
    /\ hist_name = ""
    /\ written = << >>
    /\ electron = FALSE
    /\ muon = FALSE
    /\ add_selection = ""
    /\ scan_pc = "read"
    /\ cut = << >>
    /\ points = << >>
    /\ sig_hist = [b \in 1..NBins |-> 0]
    /\ bkg_hist = << >>
    /\ roc = << >>
    /\ stack = << >>

\* one iteration of `for infile in input_files` with a file that opens and
\* holds the histogram hist: the "Wcb" file replaces sig_hist, the "Data"
\* file is skipped by `continue` (before root_file.Close()), every other file,
\* the "Wcb" one included, reaches stack.Add
ReadHistogram ==
    /\ scan_pc = "read"
    /\ fi <= Len(input_files)
    /\ \E hist \in HistValues :
          /\ sig_hist' = IF Contains("Wcb", infile) THEN hist ELSE sig_hist
          /\ IF Contains("Data", infile)
             THEN /\ stack' = stack
                  /\ open_inputs' = open_inputs \cup {infile}
             ELSE /\ stack' = Append(stack, <<infile, hist>>)
                  /\ open_inputs' = open_inputs
    /\ fi' = fi + 1
    /\ UNCHANGED <<treeVars_NoOpen, pc, input_files, moreVars, datacardVars, scoreVars,
                   fixVars, scan_pc, cut, points, bkg_hist, roc>>

\* the file does not open (FileNotFoundError) or does not hold the histogram
\* (ValueError): the exception leaves estimate_cut
RaiseReadError ==
    /\ scan_pc = "read"
    /\ fi <= Len(input_files)
    /\ scan_pc' = "raised"
    /\ UNCHANGED <<processVars, moreVars, datacardVars, scoreVars, fixVars, cut, points,
                   sig_hist, bkg_hist, roc, stack>>

\* after the loop: sum_of_backgrounds = stack.GetStack().Last().Clone(), then
\* cut = 0.01.  GetStack() of an empty THStack is a null pointer.
SumBackgrounds ==
    /\ scan_pc = "read"
    /\ fi > Len(input_files)
    /\ IF stack = << >>
       THEN /\ scan_pc' = "raised"
            /\ UNCHANGED <<bkg_hist, cut>>
       ELSE /\ scan_pc' = "scan"
            /\ bkg_hist' = SumOfStack(stack, Len(stack))
            /\ cut' = Step
    /\ UNCHANGED <<processVars, moreVars, datacardVars, scoreVars, fixVars, points,
                   sig_hist, roc, stack>>

NextStack ==
    \/ ReadHistogram
    \/ RaiseReadError
    \/ SumBackgrounds

SpecStack == InitStack /\ [][NextStack]_vars

\* C26: sum_of_backgrounds is built from a stack that holds neither the
\* signal ("Wcb") histogram nor the collision-data histogram
C26_StackExcludesSignalAndData ==
    scan_pc = "scan" =>
        /\ \A k \in DOMAIN stack :
              ~Contains("Wcb", stack[k][1]) /\ ~Contains("Data", stack[k][1])
        /\ bkg_hist = SumOfStack(stack, Len(stack))

\* the collision-data histogram alone is kept out of the stack
C26_DataNotStacked ==
    /\ \A k \in DOMAIN stack : ~Contains("Data", stack[k][1])
    /\ scan_pc = "scan" => bkg_hist = SumOfStack(stack, Len(stack))


-----------------------------------------------------------------------------
(* The category predicates: adhoc_selection *)

\* scores are counted in units of 0.025: the cuts 0.6, 0.85 and 0.05
WcbBaseCut == 24
WcbRegionCut == 34
LFCut == 2

\* the keys of adhoc_selection with the raw score each one maximises
adhoc_names ==
    << <<"score_tt_Wcb", "">>,
       <<"fscore_ttbb", "score_ttbb">>,
       <<"fscore_ttbj", "score_ttbj">>,
       <<"fscore_ttcc", "score_ttcc">>,
       <<"fscore_ttcj", "score_ttcj">>,
       <<"fscore_ttLF", "score_ttLF">> >>

\* hdumper's evtClassification_weights in thousandths, by raw score column;
\* prepareHistosForCards compares the raw scores themselves
evtClassification_weights(c) ==
    IF prog = "hdumper"
    THEN CASE c = "score_ttLF" -> 537
           [] c = "score_ttcc" -> 90
           [] c = "score_ttcj" -> 116
           [] c = "score_ttbb" -> 71
           [] c = "score_ttbj" -> 156
    ELSE 1

\* "score_tt_Wcb > 0.6 && score_ttLF < 0.05"
eventClassificationBaseSelection ==
    score_tt_Wcb > WcbBaseCut /\ RawOf("score_ttLF") < LFCut

\* "score_tt_Wcb > 0.85"
SR_selection == score_tt_Wcb > WcbRegionCut

\* variant of CR_selection without the upper cut on score_tt_Wcb
CR_selection_NoCut == TRUE

\* "score_tt_Wcb < 0.85"
CR_selection == score_tt_Wcb < WcbRegionCut

\* "w_c * c > w_o * o" for each of the four other raw scores o
LargestScore(c) ==
    \A k \in DOMAIN raw_score_names :
        raw_score_names[k] # c =>
            evtClassification_weights(c) * RawOf(c) >
                evtClassification_weights(raw_score_names[k]) * RawOf(raw_score_names[k])

\* adhoc_selection[adhoc_names[k][1]] evaluated for the event
adhoc_selection(k) ==
    /\ eventClassificationBaseSelection
    /\ IF adhoc_names[k][2] = ""
       THEN SR_selection
       ELSE CR_selection /\ LargestScore(adhoc_names[k][2])

\* values of score_tt_Wcb at and next above the two cuts
WcbValues == {WcbBaseCut, WcbBaseCut + 1, WcbRegionCut, WcbRegionCut + 1}

\* one event that passed event_selection, before the category filters
InitCategories ==
    /\ IdleGlob /\ IdleMerge /\ IdleDatacard /\ IdleScan /\ IdleFix
    /\ prog \in {"cards", "hdumper"}
    /\ eventClassification = (prog = "hdumper")
    /\ year = 2018
    /\ input_files = << >>
    /\ pc = "filter"
    /\ fi = 1
    /\ si = 1
    /\ yi = 1
    /\ ci = 1
    /\ open_inputs = {}
    /\ open_outputs = {}
    /\ event_selection = ""
    /\ weight = ""
    /\ columns = << >>
    /\ hist_name = ""
    /\ written = << >>
    /\ electron = FALSE
    /\ muon = FALSE
    /\ add_selection = ""
    /\ raw_scores \in [DOMAIN raw_score_names -> 0..MaxScore]
    /\ defined = << >>
    /\ score_tt_Wcb \in WcbValues
    /\ filled = {}

\* df_selected.Filter(adhoc_selection[...]) of the next category, then
\* Histo1D: the event is counted in the category if it passes the filter
FilterCategory ==
    /\ pc = "filter"
    /\ ci <= Len(adhoc_names)
    /\ filled' = IF adhoc_selection(ci) THEN filled \cup {adhoc_names[ci][1]} ELSE filled
    /\ ci' = ci + 1
    /\ UNCHANGED <<prog, year, eventClassification, input_files, pc, fi, si, yi,
                   open_inputs, open_outputs, event_selection, weight, columns,
                   hist_name, written, optionVars, score_tt_Wcb, globVars,
                   mergeVars, datacardVars, scoreVars, scanVars, fixVars>>

\* the loop over the categories is over
CategoriesDone ==
    /\ pc = "filter"
    /\ ci > Len(adhoc_names)
    /\ pc' = "done"
    /\ UNCHANGED <<prog, year, eventClassification, input_files, fi, si, yi, ci,
                   open_inputs, open_outputs, event_selection, weight, columns,
                   hist_name, written, optionVars, categoryVars, globVars,
                   mergeVars, datacardVars, scoreVars, scanVars, fixVars>>

NextCategories ==
    \/ FilterCategory
    \/ CategoriesDone

SpecCategories == InitCategories /\ [][NextCategories]_vars

\* C28: an event passes at most one of the six category predicates, in
\* prepareHistosForCards and in hdumper
C28_AtMostOneCategory ==
    /\ Cardinality(filled) <= 1
    /\ \A j, k \in DOMAIN adhoc_names :
          (j # k /\ raw_scores # << >>) => ~(adhoc_selection(j) /\ adhoc_selection(k))

\* an event of hdumper with two non-zero raw scores is counted in fscore_ttbj
C28_Witness ==
    /\ pc = "done"
    /\ prog = "hdumper"
    /\ filled = {"fscore_ttbj"}
    /\ RawOf("score_ttbb") > RawOf("score_ttbj")


-----------------------------------------------------------------------------
(* merge_files and its six calls at the end of hdumper's __main__ *)

\* the calls merge_files(args.output_dir, <list>, <output>), in order
MergeCalls ==
    << <<{"h_ttW.root", "h_ttZ.root"}, "h_ttV.root">>,
       <<{"h_ttHbb.root", "h_ttHcc.root", "h_ttV.root"}, "h_ttH-ttV.root">>,
       <<{"h_ttbb-4f_ttbb.root", "h_ttbb-dps_ttbb.root"}, "h_ttbb-withDPS.root">>,
       <<{"h_ttbb-4f_ttbj.root", "h_ttbb-dps_ttbj.root"}, "h_ttbj-withDPS.root">>,
       <<{"h_TWZ.root", "h_diboson.root"}, "h_diboson-tWZ.root">>,
       <<{"h_singlee.root", "h_singlemu.root"}, "h_Data.root">> >>

\* files that process_trees can have left in args.output_dir
OutputFiles ==
    (UNION {MergeCalls[k][1] : k \in DOMAIN MergeCalls}) \ {"h_ttV.root"}

MaxMissing == 2

\* process_trees has returned; at most MaxMissing of its output files are
\* not there
InitMerge ==
    /\ IdleGlob /\ IdleCategories /\ IdleDatacard /\ IdleScores /\ IdleScan /\ IdleFix
    /\ prog = "hdumper"
    /\ eventClassification = FALSE
    /\ year = 2018
    /\ input_files = << >>
    /\ pc = "done"
    /\ fi = 1
    /\ si = 1
    /\ yi = 1
    /\ ci = 1
    /\ open_inputs = {}
    /\ open_outputs = {}
    /\ event_selection = ""
    /\ weight = ""
    /\ columns = << >>
    /\ hist_name = ""
    /\ written = << >>
    /\ electron = FALSE
    /\ muon = FALSE
    /\ add_selection = ""
    /\ disk \in {OutputFiles \ missing :
                   missing \in {m \in SUBSET OutputFiles : Cardinality(m) <= MaxMissing}}
    /\ merge_pc = "merge"
    /\ merge_i = 1
    /\ merge_log = << >>

\* merge_files with an input file missing: the message is printed and the
\* function returns
MergeSkipped ==
    /\ merge_pc = "merge"
    /\ merge_i <= Len(MergeCalls)
    /\ ~(MergeCalls[merge_i][1] \subseteq disk)
    /\ merge_log' = <<merge_i, "skipped", {}>>
    /\ merge_i' = merge_i + 1
    /\ UNCHANGED <<processVars, globVars, categoryVars, datacardVars, scoreVars,
                   scanVars, fixVars, disk, merge_pc>>

\* merge_files with every input present and hadd exiting with status 0: the
\* output is written, then rm removes the inputs
MergeFiles ==
    /\ merge_pc = "merge"
    /\ merge_i <= Len(MergeCalls)
    /\ MergeCalls[merge_i][1] \subseteq disk
    /\ disk' = (disk \ MergeCalls[merge_i][1]) \cup {MergeCalls[merge_i][2]}
    /\ merge_log' = <<merge_i, "merged", MergeCalls[merge_i][1]>>
    /\ merge_i' = merge_i + 1
    /\ UNCHANGED <<processVars, globVars, categoryVars, datacardVars, scoreVars,
                   scanVars, fixVars, merge_pc>>

\* merge_files with every input present and hadd failing (unreadable input,
\* full disk, hadd not installed): os.system returns the status, which is
\* not looked at, and rm removes the inputs all the same.  The output is
\* absent or partial.
MergeFailed ==
    /\ merge_pc = "merge"
    /\ merge_i <= Len(MergeCalls)
    /\ MergeCalls[merge_i][1] \subseteq disk
    /\ \E partial \in BOOLEAN :
          disk' = (disk \ MergeCalls[merge_i][1]) \cup
                  (IF partial THEN {MergeCalls[merge_i][2]} ELSE {})
    /\ merge_log' = <<merge_i, "failed", MergeCalls[merge_i][1]>>
    /\ merge_i' = merge_i + 1
    /\ UNCHANGED <<processVars, globVars, categoryVars, datacardVars, scoreVars,
                   scanVars, fixVars, merge_pc>>

\* the last merge_files call has returned
MergeEnd ==
    /\ merge_pc = "merge"
    /\ merge_i > Len(MergeCalls)
    /\ merge_pc' = "done"
    /\ UNCHANGED <<processVars, globVars, categoryVars, datacardVars, scoreVars,
                   scanVars, fixVars, disk, merge_i, merge_log>>

NextMerge ==
    \/ MergeSkipped
    \/ MergeFiles
    \/ MergeFailed
    \/ MergeEnd

SpecMerge == InitMerge /\ [][NextMerge]_vars

\* C29: a merge_files call removes input files only when its merge succeeded
C29_DeleteOnlyAfterMerge ==
    (merge_log # << >> /\ merge_log[3] # {}) => merge_log[2] = "merged"

\* the first half alone: with an input missing nothing is merged or deleted
C29_MissingInputKeepsFiles ==
    [][(merge_log' # << >> /\ merge_log'[2] = "skipped") => disk' = disk]_vars

====
